---- MODULE Spec2Model ----
(***************************************************************************)
(* Draw-and-guess game: the GameManager (word selection, scoring, result   *)
(* lifecycle) and the DrawingCanvas it drives (chalkboard variant).        *)
(*                                                                         *)
(* Words are written with English glosses of the Chinese source strings.  *)
(* The canvas is modelled as one row of CanvasWidth pixels; a pixel holds  *)
(* the RGBA quadruple getImageData() would return for it.                  *)
(***************************************************************************)
EXTENDS Integers, Sequences, FiniteSets

VARIABLES
  \* GameManager fields
  wordList, currentWord, score, usedWords,
  \* DOM elements written by GameManager
  wordDisplay, scoreDisplay, resultHidden, resultTitle, resultMessage,
  \* DrawingCanvas fields and its 2D context
  pixels, path, isDrawing, currentColor, brushSize,
  strokeStyle, lineWidth, fillStyle,
  \* observation of the most recent handler: its name, the alerts it raised,
  \* the results of its evaluateDrawing(), getRandomWord() and isEmpty() calls
  obs,
  \* sum of the points of every evaluation made by submitAnswer()
  awarded,
  \* the words returned by direct getRandomWord() calls, in call order
  returned,
  \* the pixels covered by the lines drawn since the most recent clear()
  sinceClear,
  \* TRUE from a nextWord() until the next mouse or touch event
  freshRound,
  \* the browser: whether the round caps of a zero-length line paint its point
  zeroLengthCaps,
  \* the page around the canvas: whether #startGameSection has the class
  \* hidden, and the style.display of .canvas-wrapper and of .toolbar
  startGameSectionHidden, canvasWrapperDisplay, toolbarDisplay,
  \* the event types of the listeners registered on the canvas element, in
  \* registration order
  listeners

gameVars   == <<wordList, currentWord, score, usedWords>>
domVars    == <<wordDisplay, scoreDisplay, resultHidden, resultTitle, resultMessage>>
canvasVars == <<pixels, path, isDrawing, currentColor, brushSize,
                strokeStyle, lineWidth, fillStyle>>
pageVars   == <<startGameSectionHidden, canvasWrapperDisplay, toolbarDisplay,
                listeners>>
vars       == <<gameVars, domVars, canvasVars, obs, awarded, returned,
                sinceClear, freshRound, zeroLengthCaps, pageVars>>

-----------------------------------------------------------------------------
(* Bounds *)

\* the word pool holds at most MaxPool words (the source pool holds 30)
MaxPool == 3
\* submitAnswer() is not fired once it would take score above MaxScore
MaxScore == 10
\* pixels in the modelled canvas row (the source canvas is 800 x 600)
CanvasWidth == 3
\* rows of the modelled canvas (only getPosition() looks at the height)
CanvasHeight == 1
\* the largest displayed width and height getPosition() is probed with
MaxRect == 5

-----------------------------------------------------------------------------
(* GameManager: word pool *)

Null == "null"

\* initWordList(): the three tiers as written in the source
SourceWordList ==
  [easy   |-> <<"sun", "moon", "star", "house", "tree",
                "flower", "cat", "dog", "fish", "bird">>,
   medium |-> <<"car", "plane", "bicycle", "computer", "phone",
                "book", "glasses", "umbrella", "smiley", "heart">>,
   hard   |-> <<"rainbow", "butterfly", "cake", "rocket", "castle",
                "piano", "football", "birthday", "gift", "windmill">>]

\* the pools of the model: every tier a non-empty prefix of its source tier,
\* at most MaxPool words in all
initWordList ==
  { [easy   |-> SubSeq(SourceWordList.easy, 1, e),
     medium |-> SubSeq(SourceWordList.medium, 1, m),
     hard   |-> SubSeq(SourceWordList.hard, 1, h)] :
      <<e, m, h>> \in { t \in (1..MaxPool) \X (1..MaxPool) \X (1..MaxPool) :
                          t[1] + t[2] + t[3] <= MaxPool } }

Range(s) == { s[i] : i \in DOMAIN s }

\* mutant of allWords: the hard tier is left out
allWordsNoHard(wl) == wl.easy \o wl.medium

\* const allWords = [...easy, ...medium, ...hard]
allWords(wl) == wl.easy \o wl.medium \o wl.hard

\* the word pool of the manager and its size
Pool == Range(wordList.easy) \cup Range(wordList.medium) \cup Range(wordList.hard)
N    == Len(wordList.easy) + Len(wordList.medium) + Len(wordList.hard)

\* mutant of IsAvailable: used words are not filtered out
IsAvailableAlways(used, w) == TRUE

\* allWords.filter(word => !this.usedWords.has(word))
IsAvailable(used, w) == w \notin used
availableWords(wl, used) ==
  LET all == allWords(wl)
      F[i \in 0..Len(all)] ==
        IF i = 0 THEN <<>>
        ELSE IF IsAvailable(used, all[i]) THEN Append(F[i-1], all[i]) ELSE F[i-1]
  IN F[Len(all)]

\* usedWords as getRandomWord() finds it after an exhausted pool was detected
ResetUsed(used) == {}

\* mutant of getRandomWord: the used-set is reset one word too early
RECURSIVE getRandomWordEarlyReset(_, _, _)
getRandomWordEarlyReset(wl, used, depth) ==
  LET available == availableWords(wl, used) IN
  IF Len(available) <= 1 /\ used # {}
  THEN getRandomWordEarlyReset(wl, ResetUsed(used), depth + 1)
  ELSE { [word |-> available[i], usedWords |-> used \cup {available[i]},
          depth |-> depth] : i \in 1..Len(available) }

\* mutant of getRandomWord: the word returned is not added to usedWords
RECURSIVE getRandomWordForgets(_, _, _)
getRandomWordForgets(wl, used, depth) ==
  LET available == availableWords(wl, used) IN
  IF Len(available) = 0
  THEN getRandomWordForgets(wl, ResetUsed(used), depth + 1)
  ELSE { [word |-> available[i], usedWords |-> used, depth |-> depth] :
           i \in 1..Len(available) }

\* getRandomWord(): every outcome [word, usedWords, depth] the call can have
\* from the used-set `used`; depth counts the recursive retries
RECURSIVE getRandomWord(_, _, _)
getRandomWord(wl, used, depth) ==
  LET available == availableWords(wl, used) IN
  IF Len(available) = 0
  THEN getRandomWord(wl, ResetUsed(used), depth + 1)
  ELSE { [word |-> available[i], usedWords |-> used \cup {available[i]},
          depth |-> depth] : i \in 1..Len(available) }

-----------------------------------------------------------------------------
(* DrawingCanvas *)

Pixels == 0..(CanvasWidth - 1)

Background == "#2d3436"
Chalk      == "#ffffff"

\* the colors setColor() is given: the chalk, a red, and the board's own
Colors == { "#ffffff", "#ff0000", "#2d3436" }

\* the sizes setBrushSize() is given
BrushSizes == { 3, 5 }

\* the RGBA quadruple a CSS color string paints (opaque)
ParseColor(c) ==
  CASE c = "#2d3436" -> <<45, 52, 54, 255>>
    [] c = "#ffffff" -> <<255, 255, 255, 255>>
    [] c = "#000000" -> <<0, 0, 0, 255>>
    [] c = "#ff0000" -> <<255, 0, 0, 255>>

Abs(x) == IF x < 0 THEN -x ELSE x

bgR == 45
bgG == 52
bgB == 54
Tolerance == 5

\* mutant of isEmpty: a channel exactly Tolerance away already counts as ink
isEmptyStrict(px) ==
  \A p \in DOMAIN px :
    ~ ( \/ Abs(px[p][1] - bgR) >= Tolerance
        \/ Abs(px[p][2] - bgG) >= Tolerance
        \/ Abs(px[p][3] - bgB) >= Tolerance )

\* isEmpty() on the pixel buffer px
isEmpty(px) ==
  \A p \in DOMAIN px :
    ~ ( \/ Abs(px[p][1] - bgR) > Tolerance
        \/ Abs(px[p][2] - bgG) > Tolerance
        \/ Abs(px[p][3] - bgB) > Tolerance )

\* mutant of ClearColor: the fill color of a white board
ClearColorWhite == "#ffffff"

\* the fill color of clear()
ClearColor == "#2d3436"

\* mutant of clear: the fill is left for later, the pixels are not yet painted
clearDeferred ==
  /\ fillStyle' = ClearColor
  /\ sinceClear' = {}
  /\ UNCHANGED pixels

\* clear(): fillStyle = '#2d3436'; fillRect(0, 0, width, height)
clear ==
  /\ fillStyle' = ClearColor
  /\ pixels' = [p \in Pixels |-> ParseColor(fillStyle')]
  /\ sinceClear' = {}

\* whether the round caps of a line of length zero paint its point: browsers
\* differ, both outcomes are possible
ZeroLengthCaps == BOOLEAN

\* the pixels a line from a to b covers
Segment(a, b, caps) ==
  IF a = b THEN (IF caps THEN {a} ELSE {})
  ELSE { p \in Pixels : (a <= p /\ p <= b) \/ (b <= p /\ p <= a) }

\* the canvas path: its current point (none after beginPath) and the pixels
\* its lines cover
EmptyPath == [point |-> <<>>, ink |-> {}]
moveTo(pa, x) == [pa EXCEPT !.point = <<x>>]

\* the pixels of the line lineTo(x) adds to the path
NewLine(pa, x, caps) ==
  IF pa.point = <<>> THEN {} ELSE Segment(pa.point[1], x, caps)

\* mutant of lineTo: the point moves, no line is added
lineToMoves(pa, x, caps) == [pa EXCEPT !.point = <<x>>]

\* ctx.lineTo(x)
lineTo(pa, x, caps) ==
  [point |-> <<x>>, ink |-> pa.ink \cup NewLine(pa, x, caps)]

\* ctx.stroke(): paints the lines of the path with the given style
stroke(px, pa, style) ==
  [p \in Pixels |-> IF p \in pa.ink THEN ParseColor(style) ELSE px[p]]

\* getBoundingClientRect() of a canvas displayed at its pixel size
DisplayRect == [left |-> 0, width |-> CanvasWidth]

\* getPosition(e): (e.clientX - rect.left) * (canvas.width / rect.width)
getPosition(clientX, rect) == ((clientX - rect.left) * CanvasWidth) \div rect.width

\* numbers as JavaScript holds them: the exact value num/den in lowest terms
\* and how the double stands to it (IEEE rounding is not computed: where a
\* result is not known to be exact, every direction is possible)
RECURSIVE gcd(_, _)
gcd(a, b) == IF b = 0 THEN a ELSE gcd(b, a % b)
IsPowerOfTwo(n) == \E k \in 0..n : 2 ^ k = n
Double(num, den, roundings) ==
  LET g == gcd(num, den) IN
  { [num |-> num \div g, den |-> den \div g, rounding |-> r] : r \in roundings }

\* a / b for integers a >= 0, b > 0: exact iff the quotient is a dyadic number
divide(a, b) ==
  IF IsPowerOfTwo(b \div gcd(a, b))
  THEN Double(a, b, {"exact"})
  ELSE Double(a, b, {"below", "above"})

\* k * d for an integer k >= 0 and a double d
multiply(k, d) ==
  IF k = 0 THEN Double(0, 1, {"exact"})
  ELSE IF d.rounding = "exact" THEN Double(k * d.num, d.den, {"exact"})
  ELSE Double(k * d.num, d.den, {"below", "exact", "above"})

\* mutant of getPositionOffsetOnly: the rectangle's top is not subtracted
getPositionIgnoresTop(e, rect) ==
  { [x |-> x, y |-> y] :
      x \in Double(e.clientX - rect.left, 1, {"exact"}),
      y \in Double(e.clientY, 1, {"exact"}) }

\* getPosition(e) of the white-board variant of DrawingCanvas: the offset
\* from the rectangle's corner, whatever the display size
getPositionOffsetOnly(e, rect) ==
  { [x |-> x, y |-> y] :
      x \in Double(e.clientX - rect.left, 1, {"exact"}),
      y \in Double(e.clientY - rect.top, 1, {"exact"}) }

\* mutant of getPositionXY: each coordinate is scaled by the other's factor
getPositionSwapsScales(e, rect) ==
  UNION { UNION { { [x |-> x, y |-> y] :
                      x \in multiply(e.clientX - rect.left, scaleY),
                      y \in multiply(e.clientY - rect.top, scaleX) } :
                  scaleY \in divide(CanvasHeight, rect.height) } :
          scaleX \in divide(CanvasWidth, rect.width) }

\* getPosition(e): every {x, y} the call can return for the event e and the
\* bounding rectangle rect
getPositionXY(e, rect) ==
  UNION { UNION { { [x |-> x, y |-> y] :
                      x \in multiply(e.clientX - rect.left, scaleX),
                      y \in multiply(e.clientY - rect.top, scaleY) } :
                  scaleY \in divide(CanvasHeight, rect.height) } :
          scaleX \in divide(CanvasWidth, rect.width) }

\* the bounding rectangles and pointer events getPosition() is probed with:
\* the canvas at two offsets, displayed at every size up to MaxRect, and the
\* pointer anywhere on it, borders included
RectOrigins == { 0, 2 }
ProbeRects ==
  { [left |-> l, top |-> t, width |-> w, height |-> h] :
      l \in RectOrigins, t \in RectOrigins, w \in 1..MaxRect, h \in 1..MaxRect }
ProbeEvents(rect) ==
  { [clientX |-> x, clientY |-> y] :
      x \in rect.left..(rect.left + rect.width),
      y \in rect.top..(rect.top + rect.height) }

\* the observation a handler named op starts with
\* (args: what the handler was given; prevented: e.preventDefault() was
\* called; retries: the recursion depth of a direct getRandomWord() call;
\* position: the result of a direct getPosition() call)
NoObs(op) ==
  [op |-> op, alerts |-> <<>>, evaluations |-> <<>>, selected |-> <<>>,
   emptyChecks |-> <<>>, args |-> <<>>, prevented |-> FALSE,
   retries |-> <<>>, position |-> <<>>]

\* ctx.lineWidth = value: the context ignores a value that is not positive
SetLineWidth(old, value) == IF value > 0 THEN value ELSE old

\* mutant of startDrawing: the cursor moves without a new path being begun
startDrawingKeepsPath(clientX) ==
  /\ isDrawing' = TRUE
  /\ path' = moveTo(path, getPosition(clientX, DisplayRect))
  /\ UNCHANGED <<pixels, currentColor, brushSize, strokeStyle, lineWidth,
                 fillStyle, sinceClear>>

\* mutant of bindEvents: only the mouse listeners are registered
bindEventsMouseOnly == <<"mousedown", "mousemove", "mouseup", "mouseout">>

\* bindEvents(): the canvas.addEventListener() calls, in order
bindEvents ==
  <<"mousedown", "mousemove", "mouseup", "mouseout",
    "touchstart", "touchmove", "touchend">>

\* whether an event of the given type has a listener on the canvas
Bound(type) == \E i \in DOMAIN listeners : listeners[i] = type

\* startDrawing(e)
startDrawing(clientX) ==
  /\ isDrawing' = TRUE
  /\ path' = moveTo(EmptyPath, getPosition(clientX, DisplayRect))
  /\ UNCHANGED <<pixels, currentColor, brushSize, strokeStyle, lineWidth,
                 fillStyle, sinceClear>>

\* mutant of draw: the line is drawn whether or not a gesture is open
drawUnguarded(clientX) ==
  LET pos == getPosition(clientX, DisplayRect)
      caps == zeroLengthCaps IN
    /\ strokeStyle' = currentColor
    /\ lineWidth' = SetLineWidth(lineWidth, brushSize)
    /\ path' = lineTo(path, pos, caps)
    /\ pixels' = stroke(pixels, path', strokeStyle')
    /\ sinceClear' = sinceClear \cup NewLine(path, pos, caps)
    /\ UNCHANGED <<isDrawing, currentColor, brushSize, fillStyle>>

\* draw(e)
draw(clientX) ==
  IF ~isDrawing
  THEN UNCHANGED <<canvasVars, sinceClear>>
  ELSE LET pos == getPosition(clientX, DisplayRect)
           caps == zeroLengthCaps IN
         /\ strokeStyle' = currentColor
         /\ lineWidth' = SetLineWidth(lineWidth, brushSize)
         /\ path' = lineTo(path, pos, caps)
         /\ pixels' = stroke(pixels, path', strokeStyle')
         /\ sinceClear' = sinceClear \cup NewLine(path, pos, caps)
         /\ UNCHANGED <<isDrawing, currentColor, brushSize, fillStyle>>

\* mutant of stopDrawing: the path of the ended gesture is kept
stopDrawingKeepsPath ==
  /\ isDrawing' = FALSE
  /\ UNCHANGED <<path, pixels, currentColor, brushSize, strokeStyle, lineWidth,
                 fillStyle, sinceClear>>

\* stopDrawing()
stopDrawing ==
  /\ isDrawing' = FALSE
  /\ path' = EmptyPath
  /\ UNCHANGED <<pixels, currentColor, brushSize, strokeStyle, lineWidth,
                 fillStyle, sinceClear>>

\* mutant of setColor: the new color is put on the context at once
setColorRestyles(color) ==
  /\ currentColor' = color
  /\ strokeStyle' = color
  /\ UNCHANGED <<pixels, path, isDrawing, brushSize, lineWidth, fillStyle>>

\* setColor(color)
setColor(color) ==
  /\ currentColor' = color
  /\ UNCHANGED <<pixels, path, isDrawing, brushSize, strokeStyle, lineWidth,
                 fillStyle>>

\* mutant of setBrushSize: the size stored is one less than the size given
setBrushSizeOffByOne(size) ==
  /\ brushSize' = size - 1
  /\ UNCHANGED <<pixels, path, isDrawing, currentColor, strokeStyle, lineWidth,
                 fillStyle>>

\* setBrushSize(size)
setBrushSize(size) ==
  /\ brushSize' = size
  /\ UNCHANGED <<pixels, path, isDrawing, currentColor, strokeStyle, lineWidth,
                 fillStyle>>

\* canvas listeners: mousedown, mousemove, mouseup, mouseout
MouseDown(clientX) ==
  /\ Bound("mousedown")
  /\ startDrawing(clientX)
  /\ obs' = [NoObs("mousedown") EXCEPT !.args = <<clientX>>]
  /\ freshRound' = FALSE
  /\ UNCHANGED <<gameVars, domVars, awarded, returned, zeroLengthCaps, pageVars>>

MouseMove(clientX) ==
  /\ Bound("mousemove")
  /\ draw(clientX)
  /\ obs' = NoObs("mousemove")
  /\ freshRound' = FALSE
  /\ UNCHANGED <<gameVars, domVars, awarded, returned, zeroLengthCaps, pageVars>>

MouseUp ==
  /\ Bound("mouseup")
  /\ stopDrawing
  /\ obs' = NoObs("mouseup")
  /\ freshRound' = FALSE
  /\ UNCHANGED <<gameVars, domVars, awarded, returned, zeroLengthCaps, pageVars>>

\* mutant of MouseOut: leaving the canvas is not listened to
MouseOutIgnored ==
  /\ obs' = NoObs("mouseout")
  /\ freshRound' = FALSE
  /\ UNCHANGED <<gameVars, domVars, canvasVars, awarded, returned, sinceClear,
                 zeroLengthCaps, pageVars>>

MouseOut ==
  /\ Bound("mouseout")
  /\ stopDrawing
  /\ obs' = NoObs("mouseout")
  /\ freshRound' = FALSE
  /\ UNCHANGED <<gameVars, domVars, awarded, returned, zeroLengthCaps, pageVars>>

\* mutant of TouchStart: the gesture starts at the newest touch point
TouchStartNewest(touches) ==
  /\ startDrawing(touches[Len(touches)])
  /\ obs' = [NoObs("touchstart") EXCEPT !.args = touches, !.prevented = TRUE]
  /\ freshRound' = FALSE
  /\ UNCHANGED <<gameVars, domVars, awarded, returned, zeroLengthCaps, pageVars>>

\* canvas listeners: touchstart, touchmove (e.preventDefault(), then on
\* e.touches[0]) and touchend; touches is the event's list of active touch
\* points, each given by its clientX
TouchStart(touches) ==
  /\ Bound("touchstart")
  /\ startDrawing(touches[1])
  /\ obs' = [NoObs("touchstart") EXCEPT !.args = touches, !.prevented = TRUE]
  /\ freshRound' = FALSE
  /\ UNCHANGED <<gameVars, domVars, awarded, returned, zeroLengthCaps, pageVars>>

TouchMove(touches) ==
  /\ Bound("touchmove")
  /\ draw(touches[1])
  /\ obs' = [NoObs("touchmove") EXCEPT !.args = touches, !.prevented = TRUE]
  /\ freshRound' = FALSE
  /\ UNCHANGED <<gameVars, domVars, awarded, returned, zeroLengthCaps, pageVars>>

TouchEnd ==
  /\ Bound("touchend")
  /\ stopDrawing
  /\ obs' = NoObs("touchend")
  /\ freshRound' = FALSE
  /\ UNCHANGED <<gameVars, domVars, awarded, returned, zeroLengthCaps, pageVars>>

\* click on a color button: canvas.setColor(btn.dataset.color)
SetColor(color) ==
  /\ setColor(color)
  /\ obs' = [NoObs("setColor") EXCEPT !.args = <<color>>]
  /\ UNCHANGED <<gameVars, domVars, awarded, returned, sinceClear, freshRound,
                 zeroLengthCaps, pageVars>>

\* input on the brush slider: canvas.setBrushSize(parseInt(e.target.value))
SetBrushSize(size) ==
  /\ setBrushSize(size)
  /\ obs' = [NoObs("setBrushSize") EXCEPT !.args = <<size>>]
  /\ UNCHANGED <<gameVars, domVars, awarded, returned, sinceClear, freshRound,
                 zeroLengthCaps, pageVars>>

\* mutant of ClearBtn: clearing also puts the tools back to their defaults
ClearBtnResetsTools ==
  /\ clear
  /\ currentColor' = Chalk
  /\ brushSize' = 3
  /\ obs' = NoObs("clear")
  /\ UNCHANGED <<gameVars, domVars, awarded, returned, freshRound,
                 path, isDrawing, strokeStyle, lineWidth,
                 zeroLengthCaps, pageVars>>

\* the sizes setBrushSize() is given when it is called directly: the method
\* takes any number
DirectSizes == { -1, 0, 1, 10 }

\* a direct setBrushSize() call
CallSetBrushSize(size) ==
  /\ setBrushSize(size)
  /\ obs' = [NoObs("setBrushSize") EXCEPT !.args = <<size>>]
  /\ UNCHANGED <<gameVars, domVars, awarded, returned, sinceClear, freshRound,
                 zeroLengthCaps, pageVars>>

\* click on the clear button: canvas.clear()
ClearBtn ==
  /\ clear
  /\ obs' = NoObs("clear")
  /\ UNCHANGED <<gameVars, domVars, awarded, returned, freshRound,
                 path, isDrawing, currentColor, brushSize, strokeStyle,
                 lineWidth,
                 zeroLengthCaps, pageVars>>

\* a direct getPosition() call, as the unit tests make it
CallGetPosition ==
  /\ obs.op \in { "layout", "getPosition", "getPositions" }
  /\ LET e == obs.args[1]
         rect == obs.args[2]
     IN \E pos \in getPositionXY(e, rect) :
          obs' = [NoObs("getPosition") EXCEPT !.args = <<e, rect>>,
                                              !.position = <<pos>>]
  /\ UNCHANGED <<gameVars, domVars, canvasVars, awarded, returned, sinceClear,
                 freshRound, zeroLengthCaps, pageVars>>

\* getPosition() of both variants of DrawingCanvas called with the same event
\* on the same layout: position holds the scaled variant's result, then the
\* offset-only variant's
CallGetPositions ==
  /\ obs.op \in { "layout", "getPosition", "getPositions" }
  /\ LET e == obs.args[1]
         rect == obs.args[2]
     IN \E scaled \in getPositionXY(e, rect) :
        \E offset \in getPositionOffsetOnly(e, rect) :
          obs' = [NoObs("getPositions") EXCEPT !.args = <<e, rect>>,
                                               !.position = <<scaled, offset>>]
  /\ UNCHANGED <<gameVars, domVars, canvasVars, awarded, returned, sinceClear,
                 freshRound, zeroLengthCaps, pageVars>>

\* a direct isEmpty() call, as the unit tests make it
CallIsEmpty ==
  /\ obs' = [NoObs("isEmpty") EXCEPT !.emptyChecks = <<isEmpty(pixels)>>]
  /\ UNCHANGED <<gameVars, domVars, canvasVars, awarded, returned, sinceClear,
                 freshRound,
                 zeroLengthCaps, pageVars>>

-----------------------------------------------------------------------------
(* GameManager: rounds *)

NoActiveRound == "NoActiveRound"
EmptyCanvas   == "EmptyCanvas"

\* mutant of scores: every outcome is worth the same
scoresConstant ==
  << [success |-> TRUE,  points |-> 7, message |-> <<"great, recognised at once">>],
     [success |-> TRUE,  points |-> 7, message |-> <<"not bad, recognisable">>],
     [success |-> TRUE,  points |-> 7, message |-> <<"so-so, barely recognisable">>],
     [success |-> TRUE,  points |-> 7, message |-> <<"hmm, what is this?">>] >>

\* evaluateDrawing(): the outcome table
scores ==
  << [success |-> TRUE,  points |-> 10, message |-> <<"great, recognised at once">>],
     [success |-> TRUE,  points |-> 7,  message |-> <<"not bad, recognisable">>],
     [success |-> TRUE,  points |-> 5,  message |-> <<"so-so, barely recognisable">>],
     [success |-> FALSE, points |-> 2,  message |-> <<"hmm, what is this?">>] >>

\* mutant of evaluateDrawing: a failed drawing costs points
evaluateDrawingPenalty ==
  { scores[i] : i \in 1..(Len(scores) - 1) } \cup
  { [success |-> FALSE, points |-> -2, message |-> <<"hmm, what is this?">>] }

\* evaluateDrawing(): scores[Math.floor(Math.random() * scores.length)]
evaluateDrawing == { scores[i] : i \in 1..Len(scores) }

\* updateWordDisplay()
updateWordDisplay(word) ==
  [textContent |-> IF word # Null THEN word ELSE "click to start",
   className   |-> IF word # Null THEN "word active" ELSE "word"]

\* mutant of ScoreGain: one point too many
ScoreGainOffByOne(evaluation) == evaluation.points + 1

\* what submitAnswer() adds to score for an evaluation
ScoreGain(evaluation) == evaluation.points

\* mutant of SkipResult: the message does not name the word
SkipResultNoReveal(word) ==
  [success |-> FALSE, points |-> 0, message |-> <<"the answer is: ">>]

\* the evaluation skipWord() presents
SkipResult(word) ==
  [success |-> FALSE, points |-> 0, message |-> <<"the answer is: ", word>>]

\* mutant of showResult: the result keeps the word it showed before
showResultKeepsWord(evaluation) ==
  /\ resultTitle' = IF evaluation.success THEN "congratulations" ELSE "try again"
  /\ resultMessage' = [message |-> evaluation.message,
                       word    |-> resultMessage.word,
                       points  |-> evaluation.points]
  /\ resultHidden' = FALSE

\* showResult(evaluation)
showResult(evaluation) ==
  /\ resultTitle' = IF evaluation.success THEN "congratulations" ELSE "try again"
  /\ resultMessage' = [message |-> evaluation.message,
                       word    |-> currentWord,
                       points  |-> evaluation.points]
  /\ resultHidden' = FALSE

\* mutant of hideResult: the result area is left as it is
hideResultForgotten == UNCHANGED resultHidden

\* hideResult()
hideResult == resultHidden' = TRUE

\* textContent = n: the decimal digits of a number n >= 0, and the number a
\* sequence of decimal digits denotes
RECURSIVE ToString(_)
ToString(n) == IF n < 10 THEN <<n>> ELSE Append(ToString(n \div 10), n % 10)
RECURSIVE ParseInt(_)
ParseInt(digits) ==
  IF digits = <<>> THEN 0
  ELSE 10 * ParseInt(SubSeq(digits, 1, Len(digits) - 1)) + digits[Len(digits)]

\* mutant of updateScore: the display gets the score of before the call
updateScoreStale == scoreDisplay' = ToString(score)

\* updateScore()
updateScore == scoreDisplay' = ToString(score')

\* mutant of NextWord: a new round also ends the gesture in progress
NextWordEndsGesture ==
  \E r \in getRandomWord(wordList, usedWords, 0) :
    /\ currentWord' = r.word
    /\ usedWords' = r.usedWords
    /\ clear
    /\ isDrawing' = FALSE
    /\ path' = EmptyPath
    /\ wordDisplay' = updateWordDisplay(currentWord')
    /\ hideResult
    /\ obs' = [NoObs("nextWord") EXCEPT !.selected = <<r.word>>]
    /\ freshRound' = TRUE
    /\ UNCHANGED <<wordList, score, scoreDisplay, resultTitle, resultMessage,
                   currentColor, brushSize, strokeStyle, lineWidth,
                   awarded, returned,
                   zeroLengthCaps, pageVars>>

\* nextWord(), called by the handler named op
nextWord(op) ==
  \E r \in getRandomWord(wordList, usedWords, 0) :
    /\ currentWord' = r.word
    /\ usedWords' = r.usedWords
    /\ clear
    /\ wordDisplay' = updateWordDisplay(currentWord')
    /\ hideResult
    /\ obs' = [NoObs(op) EXCEPT !.selected = <<r.word>>]
    /\ freshRound' = TRUE
    /\ UNCHANGED <<wordList, score, scoreDisplay, resultTitle, resultMessage,
                   path, isDrawing, currentColor, brushSize, strokeStyle, lineWidth,
                   awarded, returned,
                   zeroLengthCaps>>

\* click on the next button, or a direct call: gameManager.nextWord()
NextWord ==
  /\ nextWord("nextWord")
  /\ UNCHANGED pageVars

\* mutant of StartGame: the play surface is revealed and no word is chosen
StartGameNoWord ==
  /\ startGameSectionHidden' = TRUE
  /\ canvasWrapperDisplay' = "block"
  /\ toolbarDisplay' = "block"
  /\ UNCHANGED listeners
  /\ obs' = NoObs("startGame")
  /\ UNCHANGED <<gameVars, domVars, canvasVars, awarded, returned, sinceClear,
                 freshRound, zeroLengthCaps>>

\* click on the start button: startGame()
StartGame ==
  /\ startGameSectionHidden' = TRUE
  /\ canvasWrapperDisplay' = "block"
  /\ toolbarDisplay' = "block"
  /\ UNCHANGED listeners
  /\ nextWord("startGame")

\* mutant of SubmitAnswer: the canvas is checked before the current word
SubmitAnswerEmptyFirst ==
  IF isEmpty(pixels)
  THEN /\ obs' = [NoObs("submitAnswer") EXCEPT !.alerts = <<EmptyCanvas>>,
                                                !.emptyChecks = <<TRUE>>]
       /\ UNCHANGED <<gameVars, domVars, canvasVars, awarded, returned,
                      sinceClear, freshRound,
                      zeroLengthCaps, pageVars>>
  ELSE IF currentWord = Null
  THEN /\ obs' = [NoObs("submitAnswer") EXCEPT !.alerts = <<NoActiveRound>>,
                                                !.emptyChecks = <<FALSE>>]
       /\ UNCHANGED <<gameVars, domVars, canvasVars, awarded, returned,
                      sinceClear, freshRound,
                      zeroLengthCaps, pageVars>>
  ELSE \E evaluation \in evaluateDrawing :
         /\ score + ScoreGain(evaluation) <= MaxScore
         /\ score' = score + ScoreGain(evaluation)
         /\ updateScore
         /\ showResult(evaluation)
         /\ obs' = [NoObs("submitAnswer") EXCEPT !.evaluations = <<evaluation>>,
                                                  !.emptyChecks = <<FALSE>>]
         /\ awarded' = awarded + evaluation.points
         /\ UNCHANGED <<wordList, currentWord, usedWords, wordDisplay,
                        canvasVars, returned, sinceClear, freshRound,
                        zeroLengthCaps, pageVars>>

\* mutant of SubmitAnswer: the drawing is evaluated without looking at the canvas
SubmitAnswerNoEmptyCheck ==
  IF currentWord = Null
  THEN /\ obs' = [NoObs("submitAnswer") EXCEPT !.alerts = <<NoActiveRound>>]
       /\ UNCHANGED <<gameVars, domVars, canvasVars, awarded, returned,
                      sinceClear, freshRound,
                      zeroLengthCaps, pageVars>>
  ELSE \E evaluation \in evaluateDrawing :
         /\ score + ScoreGain(evaluation) <= MaxScore
         /\ score' = score + ScoreGain(evaluation)
         /\ updateScore
         /\ showResult(evaluation)
         /\ obs' = [NoObs("submitAnswer") EXCEPT !.evaluations = <<evaluation>>]
         /\ awarded' = awarded + evaluation.points
         /\ UNCHANGED <<wordList, currentWord, usedWords, wordDisplay,
                        canvasVars, returned, sinceClear, freshRound,
                        zeroLengthCaps, pageVars>>

\* submitAnswer()
SubmitAnswer ==
  IF currentWord = Null
  THEN /\ obs' = [NoObs("submitAnswer") EXCEPT !.alerts = <<NoActiveRound>>]
       /\ UNCHANGED <<gameVars, domVars, canvasVars, awarded, returned,
                      sinceClear, freshRound,
                      zeroLengthCaps, pageVars>>
  ELSE IF isEmpty(pixels)
  THEN /\ obs' = [NoObs("submitAnswer") EXCEPT !.alerts = <<EmptyCanvas>>,
                                                !.emptyChecks = <<TRUE>>]
       /\ UNCHANGED <<gameVars, domVars, canvasVars, awarded, returned,
                      sinceClear, freshRound,
                      zeroLengthCaps, pageVars>>
  ELSE \E evaluation \in evaluateDrawing :
         /\ score + ScoreGain(evaluation) <= MaxScore
         /\ score' = score + ScoreGain(evaluation)
         /\ updateScore
         /\ showResult(evaluation)
         /\ obs' = [NoObs("submitAnswer") EXCEPT !.evaluations = <<evaluation>>,
                                                  !.emptyChecks = <<FALSE>>]
         /\ awarded' = awarded + evaluation.points
         /\ UNCHANGED <<wordList, currentWord, usedWords, wordDisplay,
                        canvasVars, returned, sinceClear, freshRound,
                        zeroLengthCaps, pageVars>>

\* mutant of SkipWord: the result is presented without looking at currentWord
SkipWordNoGuard ==
  /\ showResult(SkipResult(currentWord))
  /\ obs' = NoObs("skipWord")
  /\ UNCHANGED <<gameVars, wordDisplay, scoreDisplay, canvasVars,
                 awarded, returned, sinceClear, freshRound,
                 zeroLengthCaps, pageVars>>

\* skipWord()
SkipWord ==
  IF currentWord = Null
  THEN /\ obs' = [NoObs("skipWord") EXCEPT !.alerts = <<NoActiveRound>>]
       /\ UNCHANGED <<gameVars, domVars, canvasVars, awarded, returned,
                      sinceClear, freshRound,
                      zeroLengthCaps, pageVars>>
  ELSE /\ showResult(SkipResult(currentWord))
       /\ obs' = NoObs("skipWord")
       /\ UNCHANGED <<gameVars, wordDisplay, scoreDisplay, canvasVars,
                      awarded, returned, sinceClear, freshRound,
                      zeroLengthCaps, pageVars>>

\* a direct evaluateDrawing() call, as the unit tests make it
CallEvaluateDrawing ==
  \E evaluation \in evaluateDrawing :
    /\ obs' = [NoObs("evaluateDrawing") EXCEPT !.evaluations = <<evaluation>>]
    /\ UNCHANGED <<gameVars, domVars, canvasVars, awarded, returned,
                   sinceClear, freshRound, zeroLengthCaps, pageVars>>

\* a direct getRandomWord() call, as the unit tests make it; the caller stops
\* after three times the pool size
CallGetRandomWord ==
  /\ Len(returned) < 3 * N
  /\ \E r \in getRandomWord(wordList, usedWords, 0) :
       /\ usedWords' = r.usedWords
       /\ returned' = Append(returned, r.word)
       /\ obs' = [NoObs("getRandomWord") EXCEPT !.selected = <<r.word>>]
  /\ UNCHANGED <<wordList, currentWord, score, domVars, canvasVars, awarded,
                 sinceClear, freshRound,
                 zeroLengthCaps, pageVars>>

\* a direct getRandomWord() call on a manager whose pool and used-set were
\* assigned by the caller
SelectWord ==
  /\ \E r \in getRandomWord(wordList, usedWords, 0) :
       /\ usedWords' = r.usedWords
       /\ obs' = [NoObs("getRandomWord") EXCEPT !.selected = <<r.word>>,
                                                !.retries = <<r.depth>>]
  /\ UNCHANGED <<wordList, currentWord, score, domVars, canvasVars, awarded,
                 returned, sinceClear, freshRound, zeroLengthCaps, pageVars>>

-----------------------------------------------------------------------------
(* Specifications *)

\* new GameManager(canvas)
InitGame ==
  /\ wordList \in initWordList
  /\ currentWord = Null
  /\ score = 0
  /\ usedWords = {}

\* the page as loaded, before the start button is clicked
InitPage ==
  /\ startGameSectionHidden = FALSE
  /\ canvasWrapperDisplay = ""
  /\ toolbarDisplay = ""

\* the page as loaded
InitDom ==
  /\ wordDisplay = updateWordDisplay(Null)
  /\ scoreDisplay = ToString(0)
  /\ resultHidden = TRUE
  /\ resultTitle = ""
  /\ resultMessage = [message |-> <<>>, word |-> Null, points |-> 0]

\* new DrawingCanvas(canvasElement)
InitCanvas ==
  /\ isDrawing = FALSE
  /\ currentColor = Chalk
  /\ brushSize = 3
  /\ strokeStyle = "#000000"
  /\ lineWidth = 1
  /\ fillStyle = ClearColor
  /\ pixels = [p \in Pixels |-> ParseColor(ClearColor)]
  /\ path = EmptyPath

Init ==
  /\ InitGame
  /\ InitDom
  /\ InitCanvas
  /\ obs = NoObs("constructor")
  /\ awarded = 0
  /\ returned = <<>>
  /\ sinceClear = {}
  /\ freshRound = FALSE
  /\ zeroLengthCaps \in ZeroLengthCaps
  /\ InitPage
  /\ listeners = bindEvents

\* the pointer positions of the round specification: the two leftmost pixels
RoundClientX == { DisplayRect.left, DisplayRect.left + 1 }

\* a game: the GameManager's operations interleaved with mouse drawing
NextRound ==
  \/ NextWord
  \/ SubmitAnswer
  \/ SkipWord
  \/ \E x \in RoundClientX : MouseDown(x)
  \/ \E x \in RoundClientX : MouseMove(x)
  \/ MouseUp
  \/ MouseOut

SpecRound == Init /\ [][NextRound]_vars

\* the page's game buttons: start, next, submit and skip
NextGame ==
  \/ StartGame
  \/ NextWord
  \/ SubmitAnswer
  \/ SkipWord

SpecGame == Init /\ [][NextGame]_vars

\* a DrawingCanvas on its own, as the unit tests construct it: the manager
\* holds the source word list and is not driven
InitSurface ==
  /\ wordList = SourceWordList
  /\ currentWord = Null
  /\ score = 0
  /\ usedWords = {}
  /\ InitDom
  /\ InitCanvas
  /\ obs = NoObs("constructor")
  /\ awarded = 0
  /\ returned = <<>>
  /\ sinceClear = {}
  /\ freshRound = FALSE
  /\ zeroLengthCaps \in ZeroLengthCaps
  /\ InitPage
  /\ listeners = bindEvents

\* the pointer positions of the canvas specification: every pixel of the row
CanvasClientX == { DisplayRect.left + p : p \in Pixels }

\* the canvas driven by its eight listeners, the color buttons and the clear
\* button
NextCanvas ==
  \/ \E x \in CanvasClientX : MouseDown(x)
  \/ \E x \in CanvasClientX : MouseMove(x)
  \/ MouseUp
  \/ MouseOut
  \/ \E x \in CanvasClientX : TouchStart(<<x>>)
  \/ \E x \in CanvasClientX : TouchMove(<<x>>)
  \/ TouchEnd
  \/ \E color \in Colors : SetColor(color)
  \/ ClearBtn

SpecCanvas == InitSurface /\ [][NextCanvas]_vars

\* mouse gestures with every tool setting: colors, brush sizes, clear button
NextStroke ==
  \/ \E x \in CanvasClientX : MouseDown(x)
  \/ \E x \in CanvasClientX : MouseMove(x)
  \/ MouseUp
  \/ \E color \in Colors : SetColor(color)
  \/ \E size \in BrushSizes : SetBrushSize(size)
  \/ ClearBtn

SpecStroke == InitSurface /\ [][NextStroke]_vars

\* the channel offsets from the reference color that isEmpty() is probed
\* with: on the reference, at the tolerance, one beyond it
ProbeOffsets == { -(Tolerance + 1), -Tolerance, 0, Tolerance, Tolerance + 1 }

\* the offsets of one probed pixel: at most one channel off the reference,
\* or all three at the tolerance
ProbeDeltas ==
  { d \in ProbeOffsets \X ProbeOffsets \X ProbeOffsets :
      Cardinality({ c \in 1..3 : d[c] # 0 }) <= 1 }
  \cup { <<Tolerance, Tolerance, Tolerance>>,
         <<-Tolerance, -Tolerance, -Tolerance>> }

\* the alpha of a probed buffer: transparent or opaque
ProbeAlphas == { 0, 255 }

\* the buffers getImageData() is made to return
ProbeBuffers ==
  { [p \in Pixels |-> <<bgR + d[p][1], bgG + d[p][2], bgB + d[p][3], a>>] :
      d \in [Pixels -> ProbeDeltas], a \in ProbeAlphas }

\* a canvas whose pixel buffer is one of the probed buffers
InitProbe ==
  /\ wordList = SourceWordList
  /\ currentWord = Null
  /\ score = 0
  /\ usedWords = {}
  /\ InitDom
  /\ isDrawing = FALSE
  /\ currentColor = Chalk
  /\ brushSize = 3
  /\ strokeStyle = "#000000"
  /\ lineWidth = 1
  /\ fillStyle = ClearColor
  /\ pixels \in ProbeBuffers
  /\ path = EmptyPath
  /\ obs = NoObs("constructor")
  /\ awarded = 0
  /\ returned = <<>>
  /\ sinceClear = {}
  /\ freshRound = FALSE
  /\ zeroLengthCaps \in ZeroLengthCaps
  /\ InitPage
  /\ listeners = bindEvents

\* isEmpty() called on the probed buffer
NextProbe == CallIsEmpty

SpecIsEmpty == InitProbe /\ [][NextProbe]_vars

\* every non-empty pool of at most MaxPool words: each tier a prefix of its
\* source tier, empty tiers included, so that pools of a single word occur
AnyWordList ==
  { [easy   |-> SubSeq(SourceWordList.easy, 1, e),
     medium |-> SubSeq(SourceWordList.medium, 1, m),
     hard   |-> SubSeq(SourceWordList.hard, 1, h)] :
      <<e, m, h>> \in { t \in (0..MaxPool) \X (0..MaxPool) \X (0..MaxPool) :
                          t[1] + t[2] + t[3] \in 1..MaxPool } }

\* getRandomWord() called on every such pool, from every used-set over it
InitSelect ==
  /\ wordList \in AnyWordList
  /\ usedWords \in SUBSET Pool
  /\ currentWord = Null
  /\ score = 0
  /\ InitDom
  /\ InitCanvas
  /\ obs = NoObs("constructor")
  /\ awarded = 0
  /\ returned = <<>>
  /\ sinceClear = {}
  /\ freshRound = FALSE
  /\ zeroLengthCaps \in ZeroLengthCaps
  /\ InitPage
  /\ listeners = bindEvents

NextSelect == SelectWord

SpecSelect == InitSelect /\ [][NextSelect]_vars

\* the brush size set by the slider and by direct calls, between and during
\* mouse gestures
NextBrush ==
  \/ \E size \in BrushSizes : SetBrushSize(size)
  \/ \E size \in DirectSizes : CallSetBrushSize(size)
  \/ \E x \in RoundClientX : MouseDown(x)
  \/ \E x \in RoundClientX : MouseMove(x)
  \/ MouseUp

SpecBrush == InitSurface /\ [][NextBrush]_vars

\* the touch lists of the touch specification: one finger or two, anywhere on
\* the row
TouchLists ==
  { <<x>> : x \in CanvasClientX } \cup (CanvasClientX \X CanvasClientX)

\* the canvas driven by mouse and by one or two fingers
NextTouch ==
  \/ \E x \in CanvasClientX : MouseDown(x)
  \/ \E x \in CanvasClientX : MouseMove(x)
  \/ MouseUp
  \/ \E touches \in TouchLists : TouchStart(touches)
  \/ \E touches \in TouchLists : TouchMove(touches)
  \/ TouchEnd

SpecTouch == InitSurface /\ [][NextTouch]_vars

\* presses and moves only: a gesture, once open, is never ended, so every press
\* after the first move comes while the surface is drawing
NextPress ==
  \/ \E x \in CanvasClientX : MouseDown(x)
  \/ \E x \in CanvasClientX : MouseMove(x)
  \/ \E touches \in TouchLists : TouchStart(touches)
  \/ \E color \in Colors : SetColor(color)

SpecPress == InitSurface /\ [][NextPress]_vars

\* getPosition() called on a page laid out with one of the probed rectangles,
\* for one of the probed events
InitPosition ==
  /\ wordList = SourceWordList
  /\ currentWord = Null
  /\ score = 0
  /\ usedWords = {}
  /\ InitDom
  /\ InitCanvas
  /\ \E rect \in ProbeRects : \E e \in ProbeEvents(rect) :
       obs = [NoObs("layout") EXCEPT !.args = <<e, rect>>]
  /\ awarded = 0
  /\ returned = <<>>
  /\ sinceClear = {}
  /\ freshRound = FALSE
  /\ zeroLengthCaps \in ZeroLengthCaps
  /\ InitPage
  /\ listeners = bindEvents

NextPosition ==
  \/ CallGetPosition
  \/ CallGetPositions

SpecPosition == InitPosition /\ [][NextPosition]_vars

\* evaluateDrawing() called directly at any point of a game played with the
\* mouse at RoundClientX
NextEvaluate ==
  \/ CallEvaluateDrawing
  \/ NextWord
  \/ SkipWord
  \/ \E x \in RoundClientX : MouseDown(x)
  \/ \E x \in RoundClientX : MouseMove(x)

SpecEvaluate == Init /\ [][NextEvaluate]_vars

\* getRandomWord() called repeatedly on a fresh manager
NextWords == CallGetRandomWord

SpecWords == Init /\ [][NextWords]_vars

-----------------------------------------------------------------------------
(* Word selection: getRandomWord() called repeatedly on a fresh manager *)

\* C1: exhaustion cycle. Of the first N words returned no two are equal, and
\* once N words have been returned they are exactly the pool.
C1_ExhaustionCycle ==
  /\ \A i, j \in 1..Len(returned) :
       (i < j /\ j <= N) => returned[i] # returned[j]
  /\ Len(returned) >= N => { returned[i] : i \in 1..N } = Pool

\* the N-th call has just returned the last word of the pool
C1_Witness == Len(returned) = N /\ usedWords = Pool

\* C2: after k >= 1 calls usedWords has ((k-1) mod N) + 1 words; the call that
\* finds usedWords equal to the pool starts a new cycle, leaving in usedWords
\* only the word it returns.
C2_UsedWordsCycle ==
  LET k == Len(returned) IN
  k >= 1 =>
    /\ Cardinality(usedWords) = ((k - 1) % N) + 1
    /\ (k > N /\ (k - 1) % N = 0) => usedWords = { returned[k] }

\* the call after the pool was exhausted has restarted the cycle
C2_Witness == Len(returned) = N + 1 /\ usedWords = { returned[N + 1] }

\* C3: no word is permanently excluded. Every 2N-1 consecutive calls return
\* every word of the pool (checked on the window ending at the latest call,
\* in every state), and the first 2N calls return all N words.
C3_NoWordExcluded ==
  LET k == Len(returned) IN
  /\ k >= 2 * N - 1 =>
       \A w \in Pool : \E i \in (k - (2 * N - 1) + 1)..k : returned[i] = w
  /\ k >= 2 * N => { returned[i] : i \in 1..(2 * N) } = Pool

\* the first word of one cycle is the last word of the next: it was away for
\* the 2N-2 calls in between
C3_Witness ==
  /\ Len(returned) = 2 * N
  /\ returned[1] = returned[2 * N]

-----------------------------------------------------------------------------
(* Rounds: nextWord(), submitAnswer(), skipWord() interleaved with drawing *)

\* C4: score accounting. In every state score is the sum of the points of the
\* evaluations made by the successful submitAnswer() calls so far; nothing
\* else contributes.
C4_ScoreAccounting == score = awarded

\* two successful submissions (7 and 2 points) have been added up
C4_Witness ==
  /\ score = 9
  /\ obs.op = "submitAnswer"
  /\ obs.evaluations # <<>>

\* C5: score starts at 0, is a non-negative integer in every state and never
\* decreases from one state to the next.
C5_ScoreMonotone ==
  /\ score = 0
  /\ [](score \in Nat)
  /\ [][score' >= score]_vars

\* a new round was started with points already on the score
C5_Witness ==
  /\ score > 0
  /\ obs.op = "nextWord"

\* C6: submitAnswer() or skipWord() without a current word raises the
\* NoActiveRound alert and nothing else: no evaluation, no result, and the
\* manager, the page and the canvas are as before the call.
C6_NoActiveRound ==
  [][ (obs'.op \in {"submitAnswer", "skipWord"} /\ currentWord = Null) =>
        /\ obs'.alerts = <<NoActiveRound>>
        /\ obs'.evaluations = <<>>
        /\ UNCHANGED <<gameVars, domVars, canvasVars>> ]_vars

\* skipWord() was refused before the first round, with ink on the canvas
C6_Witness ==
  /\ obs.op = "skipWord"
  /\ obs.alerts = <<NoActiveRound>>
  /\ currentWord = Null
  /\ ~isEmpty(pixels)

\* C7: submitAnswer() with a current word on an empty canvas raises the
\* EmptyCanvas alert and returns: evaluateDrawing() is not called, no result
\* is presented, and score, currentWord and usedWords are unchanged.
C7_EmptyCanvas ==
  [][ (obs'.op = "submitAnswer" /\ currentWord # Null /\ isEmpty(pixels)) =>
        /\ obs'.alerts = <<EmptyCanvas>>
        /\ obs'.evaluations = <<>>
        /\ UNCHANGED <<gameVars, domVars>> ]_vars

\* a submission was refused for its empty canvas in a game that has points
C7_Witness ==
  /\ obs.op = "submitAnswer"
  /\ obs.alerts = <<EmptyCanvas>>
  /\ score > 0

\* C8: a successful submitAnswer() calls evaluateDrawing() once, adds the
\* returned points to score, shows the new score, and presents the evaluation
\* (title by success, message, points) with the current word; no alert.
C8_SuccessfulSubmit ==
  [][ (obs'.op = "submitAnswer" /\ currentWord # Null /\ ~isEmpty(pixels)) =>
        /\ Len(obs'.evaluations) = 1
        /\ obs'.alerts = <<>>
        /\ LET evaluation == obs'.evaluations[1] IN
             /\ evaluation \in Range(scores)
             /\ score' = score + evaluation.points
             /\ scoreDisplay' = ToString(score')
             /\ resultHidden' = FALSE
             /\ resultTitle' = IF evaluation.success THEN "congratulations"
                                                     ELSE "try again"
             /\ resultMessage' = [message |-> evaluation.message,
                                  word    |-> currentWord,
                                  points  |-> evaluation.points] ]_vars

\* a second submission in a game was scored and presented
C8_Witness ==
  /\ obs.op = "submitAnswer"
  /\ Len(obs.evaluations) = 1
  /\ score > obs.evaluations[1].points
  /\ ~resultHidden

\* C9: skipWord() with a current word presents a failure with 0 points and a
\* message naming the current word, and changes nothing else: the manager,
\* the canvas and the other displays are as before the call.
C9_SkipWord ==
  [][ (obs'.op = "skipWord" /\ currentWord # Null) =>
        /\ obs'.alerts = <<>>
        /\ obs'.evaluations = <<>>
        /\ resultHidden' = FALSE
        /\ resultTitle' = "try again"
        /\ resultMessage'.points = 0
        /\ resultMessage'.word = currentWord
        /\ currentWord \in Range(resultMessage'.message)
        /\ UNCHANGED <<gameVars, canvasVars, wordDisplay, scoreDisplay>> ]_vars

\* a word was skipped with a drawing on the canvas and points on the score
C9_Witness ==
  /\ obs.op = "skipWord"
  /\ obs.alerts = <<>>
  /\ ~resultHidden
  /\ score > 0
  /\ ~isEmpty(pixels)

\* C10: nextWord() can be called in every state, and after it currentWord is
\* the word just selected, a word of the pool, the canvas is all background,
\* the word display shows currentWord, the result is hidden and score is as
\* before.
C10_NextWord ==
  /\ [](ENABLED NextWord)
  /\ [][ obs'.op = "nextWord" =>
           /\ obs'.selected = <<currentWord'>>
           /\ currentWord' \in Pool
           /\ currentWord' # Null
           /\ \A p \in Pixels : pixels'[p] = ParseColor(Background)
           /\ isEmpty(pixels')
           /\ wordDisplay'.textContent = currentWord'
           /\ resultHidden' = TRUE
           /\ score' = score ]_vars

\* a round was started in the middle of a gesture, after a scored round
C10_Witness ==
  /\ obs.op = "nextWord"
  /\ isDrawing
  /\ score > 0
  /\ resultMessage.word # Null

-----------------------------------------------------------------------------
(* The drawing surface: gestures, strokes, clear(), isEmpty() *)

\* C11: the surface is a two-state machine. isDrawing is false after
\* construction, true after every mousedown and touchstart, false after every
\* mouseup, mouseout and touchend, and no other event changes it.
C11_GestureStateMachine ==
  /\ ~isDrawing
  /\ [][ /\ obs'.op \in {"mousedown", "touchstart"} => isDrawing'
         /\ obs'.op \in {"mouseup", "mouseout", "touchend"} => ~isDrawing'
         /\ obs'.op \notin {"mousedown", "touchstart", "mouseup", "mouseout",
                            "touchend"} => isDrawing' = isDrawing ]_vars

\* a touch gesture that drew a line has ended
C11_Witness ==
  /\ obs.op = "touchend"
  /\ ~isDrawing
  /\ sinceClear # {}

\* C12: a mousemove or touchmove while no gesture is open changes nothing of
\* the canvas: pixels, path, strokeStyle, lineWidth, fillStyle, isDrawing,
\* currentColor and brushSize are as before.
C12_IdleMoveNoOp ==
  [][ (obs'.op \in {"mousemove", "touchmove"} /\ ~isDrawing) =>
        UNCHANGED canvasVars ]_vars

\* the pointer moved over a finished drawing after the color was changed
C12_Witness ==
  /\ obs.op = "touchmove"
  /\ ~isDrawing
  /\ ~isEmpty(pixels)
  /\ currentColor = "#ff0000"
  /\ strokeStyle = Chalk

\* C13: a mousemove or touchmove during a gesture paints the line from the
\* cursor to the new point in the current color and leaves every pixel off
\* that line as it was: earlier segments are not repainted.
C13_SegmentStrokedOnce ==
  [][ (obs'.op \in {"mousemove", "touchmove"} /\ isDrawing) =>
        LET a == path.point[1]
            b == path'.point[1]
            line == { p \in Pixels : (a <= p /\ p <= b) \/ (b <= p /\ p <= a) }
        IN /\ \A p \in Pixels \ line : pixels'[p] = pixels[p]
           /\ a # b => \A p \in line : pixels'[p] = ParseColor(currentColor) ]_vars

\* C14: after clear() no ink drawn before it is present again: every pixel
\* that is not of the clear color lies on a line drawn since the most recent
\* clear().
C14_ClearDiscards ==
  \A p \in Pixels : pixels[p] # ParseColor(ClearColor) => p \in sinceClear

\* C15: right after clear(), from whatever state it was called in, isEmpty()
\* returns true.
C15_ClearThenEmpty == obs.op = "clear" => isEmpty(pixels)

\* the clear button was hit in the middle of a gesture that had drawn in red
C15_Witness ==
  /\ obs.op = "clear"
  /\ isDrawing
  /\ path.ink # {}
  /\ strokeStyle = "#ff0000"

C18_RoundStartsEmpty ==
  /\ [][obs'.op = "nextWord" => isEmpty(pixels')]_vars
  /\ [](freshRound => isEmpty(pixels))

\* a round was started over a gesture that had already drawn a line
C18_Witness ==
  /\ freshRound
  /\ obs.op = "nextWord"
  /\ isDrawing
  /\ path.ink # {}

\* C19: submitAnswer() and skipWord() leave the canvas as it is, whatever
\* their outcome; nextWord() changes only the pixels (and the fill style),
\* by its clear(): path, isDrawing, currentColor, brushSize and the stroke
\* settings are as before.
C19_ManagerNeverPaints ==
  [][ /\ obs'.op \in {"submitAnswer", "skipWord"} => UNCHANGED canvasVars
      /\ obs'.op = "nextWord" =>
           /\ UNCHANGED <<path, isDrawing, currentColor, brushSize,
                          strokeStyle, lineWidth>>
           /\ pixels' = [p \in Pixels |-> ParseColor(ClearColor)] ]_vars

\* a drawing was scored in the middle of a gesture
C19_Witness ==
  /\ obs.op = "submitAnswer"
  /\ Len(obs.evaluations) = 1
  /\ isDrawing
  /\ path.ink # {}
  /\ ~isEmpty(pixels)

\* C20: every submitAnswer() call invokes isEmpty(), also on a manager on
\* which nextWord() has not been called.
C20_EveryCallChecksCanvas ==
  obs.op = "submitAnswer" => Len(obs.emptyChecks) = 1

-----------------------------------------------------------------------------
(* Scoring, coordinates, settings, word selection, touch input *)

\* C21: evaluateDrawing() returns one of (true, 10), (true, 7), (true, 5),
\* (false, 2) with a non-empty message; points are never negative, success is
\* false exactly when points = 2; in every state each of the four outcomes
\* can be returned; and the call leaves the game, the page and the canvas
\* as they are.
C21_EvaluateDrawing ==
  /\ [](\A o \in { <<TRUE, 10>>, <<TRUE, 7>>, <<TRUE, 5>>, <<FALSE, 2>> } :
          ENABLED ( /\ CallEvaluateDrawing
                    /\ obs'.evaluations[1].success = o[1]
                    /\ obs'.evaluations[1].points = o[2] ))
  /\ [][ obs'.op = "evaluateDrawing" =>
           /\ Len(obs'.evaluations) = 1
           /\ LET e == obs'.evaluations[1] IN
                /\ <<e.success, e.points>> \in
                     { <<TRUE, 10>>, <<TRUE, 7>>, <<TRUE, 5>>, <<FALSE, 2>> }
                /\ e.message # <<>>
                /\ e.points >= 0
                /\ e.success = FALSE <=> e.points = 2
           /\ UNCHANGED <<gameVars, domVars, canvasVars>> ]_vars

\* a direct call in the middle of a round returned the failing outcome
C21_Witness ==
  /\ obs.op = "evaluateDrawing"
  /\ obs.evaluations[1].points = 2
  /\ currentWord # Null
  /\ ~isEmpty(pixels)

\* C22 as stated: getPosition() returns exactly
\* x = (eventX - left) * canvas.width / width and
\* y = (eventY - top) * canvas.height / height.
C22_ExactTransform ==
  obs.op = "getPosition" =>
    LET e == obs.args[1]
        rect == obs.args[2]
        pos == obs.position[1]
    IN /\ pos.x.num * rect.width = (e.clientX - rect.left) * CanvasWidth * pos.x.den
       /\ pos.y.num * rect.height = (e.clientY - rect.top) * CanvasHeight * pos.y.den
       /\ pos.x.rounding = "exact"
       /\ pos.y.rounding = "exact"

\* C22: getPosition() returns x = (eventX - left) * canvas.width / width and
\* y = (eventY - top) * canvas.height / height up to the rounding of double
\* arithmetic, and exactly when the quotient canvas.width / width (for y:
\* canvas.height / height) is a dyadic number or the offset is 0; so the
\* top-left corner always maps to (0, 0) exactly.
C22_TransformUpToRounding ==
  obs.op = "getPosition" =>
    LET e == obs.args[1]
        rect == obs.args[2]
        pos == obs.position[1]
        dx == e.clientX - rect.left
        dy == e.clientY - rect.top
    IN /\ pos.x.num * rect.width = dx * CanvasWidth * pos.x.den
       /\ pos.y.num * rect.height = dy * CanvasHeight * pos.y.den
       /\ (dx = 0 \/ IsPowerOfTwo(rect.width \div gcd(CanvasWidth, rect.width)))
            => pos.x.rounding = "exact"
       /\ (dy = 0 \/ IsPowerOfTwo(rect.height \div gcd(CanvasHeight, rect.height)))
            => pos.y.rounding = "exact"

\* the bottom-right corner of a scaled canvas away from the viewport's origin
\* was mapped to exactly (canvas.width, canvas.height)
C22_Witness ==
  /\ obs.op = "getPosition"
  /\ LET e == obs.args[1]
         rect == obs.args[2]
         pos == obs.position[1]
     IN /\ rect.left > 0 /\ rect.top > 0
        /\ rect.width # CanvasWidth /\ rect.height # CanvasHeight
        /\ e.clientX = rect.left + rect.width
        /\ e.clientY = rect.top + rect.height
        /\ pos.x = [num |-> CanvasWidth, den |-> 1, rounding |-> "exact"]
        /\ pos.y = [num |-> CanvasHeight, den |-> 1, rounding |-> "exact"]

\* C23 as stated: two consecutive nextWord() calls never produce the same
\* currentWord when the pool holds more than one word, a call that starts a
\* new exhaustion cycle included.
C23_NeverSameWordTwice ==
  [][ (obs'.op = "nextWord" /\ currentWord # Null /\ N > 1)
        => currentWord' # currentWord ]_vars

\* C23: a nextWord() call that finds an unused word left (so that it resets
\* nothing) sets currentWord to a word different from the previous one, whether
\* the previous round was skipped or not, when the pool holds more than one
\* word.
C23_NextWordDiffers ==
  [][ (obs'.op = "nextWord" /\ currentWord # Null /\ N > 1 /\ usedWords # Pool)
        => /\ currentWord' # currentWord
           /\ currentWord' \notin usedWords ]_vars

\* the first round was skipped and the second nextWord() has chosen its word
C23_Witness ==
  /\ obs.op = "nextWord"
  /\ resultMessage.message = SkipResult(resultMessage.word).message
  /\ resultMessage.word \notin { Null, currentWord }
  /\ usedWords = { resultMessage.word, currentWord }
  /\ N > 2

\* C24: setColor(value) and setBrushSize(value) store exactly the given value
\* in currentColor or brushSize and change nothing else: not isDrawing, not the
\* path, not the other setting, not the context's strokeStyle and lineWidth,
\* no pixel. The stored values reach the context at the next draw() of an open
\* gesture.
C24_PureSetters ==
  [][ /\ obs'.op = "setColor" =>
           /\ currentColor' = obs'.args[1]
           /\ UNCHANGED <<pixels, path, isDrawing, brushSize, strokeStyle,
                          lineWidth, fillStyle>>
      /\ obs'.op = "setBrushSize" =>
           /\ brushSize' = obs'.args[1]
           /\ UNCHANGED <<pixels, path, isDrawing, currentColor, strokeStyle,
                          lineWidth, fillStyle>>
      /\ (obs'.op = "mousemove" /\ isDrawing) =>
           /\ strokeStyle' = currentColor
           /\ lineWidth' = brushSize ]_vars

\* in the middle of a gesture that has painted, the color was changed and then
\* the brush size: the context still has the old style and width
C24_Witness ==
  /\ obs.op = "setBrushSize"
  /\ isDrawing
  /\ path.ink # {}
  /\ brushSize # lineWidth
  /\ currentColor # strokeStyle
  /\ \E p \in Pixels : pixels[p] = ParseColor(strokeStyle)

\* C25 as stated: after startDrawing the context's strokeStyle equals
\* currentColor and its lineWidth equals brushSize.
C25_StartAppliesSettings ==
  obs.op \in { "mousedown", "touchstart" } =>
    /\ strokeStyle = currentColor
    /\ lineWidth = brushSize

\* C26: clear() changes only pixels. It leaves currentColor, brushSize,
\* isDrawing, the path and the context's stroke settings as they were, the
\* canvas keeps its dimensions, and every pixel of the canvas's width is filled
\* with the board color.
C26_ClearChangesOnlyPixels ==
  [][ obs'.op = "clear" =>
        /\ UNCHANGED <<currentColor, brushSize, isDrawing, path, strokeStyle,
                       lineWidth, fillStyle>>
        /\ DOMAIN pixels' = DOMAIN pixels
        /\ DOMAIN pixels' = 0..(CanvasWidth - 1)
        /\ \A p \in DOMAIN pixels' : pixels'[p] = ParseColor(ClearColor) ]_vars

\* the board was cleared in the middle of a gesture drawn with a color and a
\* brush size other than the defaults
C26_Witness ==
  /\ obs.op = "clear"
  /\ isDrawing
  /\ path.ink # {}
  /\ currentColor = "#ff0000" /\ strokeStyle = "#ff0000"
  /\ brushSize = 5 /\ lineWidth = 5

\* C27: stopDrawing sets isDrawing to false and opens a fresh empty path without
\* painting; so outside a gesture the path holds no line, a gesture starts with
\* no line in its path, the first draw() of a gesture paints nothing outside the
\* line from the gesture's first point to the new point, and every draw()
\* paints only pixels of lines of the open gesture's path.
C27_StopOpensFreshPath ==
  /\ [](~isDrawing => path = EmptyPath)
  /\ [][ /\ obs'.op \in { "mouseup", "mouseout", "touchend" } =>
             /\ ~isDrawing'
             /\ path' = EmptyPath
             /\ UNCHANGED pixels
         /\ obs'.op \in { "mousedown", "touchstart" } =>
             /\ path'.ink = {}
             /\ Len(path'.point) = 1
             /\ UNCHANGED pixels
         /\ obs'.op \in { "mousemove", "touchmove" } =>
             /\ \A p \in Pixels : pixels'[p] # pixels[p] => p \in path'.ink
             /\ (isDrawing /\ path.ink = {}) =>
                  \A p \in path'.ink :
                    \/ path.point[1] <= p /\ p <= path'.point[1]
                    \/ path'.point[1] <= p /\ p <= path.point[1] ]_vars

\* a second gesture has painted in another color next to the line of an ended
\* gesture, which kept its color
C27_Witness ==
  /\ obs.op \in { "mousemove", "touchmove" }
  /\ isDrawing
  /\ path.ink # {}
  /\ \A p \in path.ink : pixels[p] = ParseColor(strokeStyle)
  /\ \E p \in Pixels \ path.ink :
       pixels[p] \notin { ParseColor(ClearColor), ParseColor(strokeStyle) }

\* C28: getRandomWord() terminates for every non-empty pool and every
\* used-set: it returns a word of the pool after at most one retry, it retries
\* exactly when every word of the pool is used, and with a pool of a single
\* word it returns that word.
C28_SelectTerminates ==
  /\ getRandomWord(wordList, usedWords, 0) # {}
  /\ \A r \in getRandomWord(wordList, usedWords, 0) :
       /\ r.depth \in { 0, 1 }
       /\ r.depth = 1 <=> Pool \subseteq usedWords
       /\ r.word \in Pool
       /\ N = 1 => r.word = allWords(wordList)[1]
  /\ obs.op = "getRandomWord" =>
       /\ obs.retries[1] <= 1
       /\ obs.selected[1] \in Pool
       /\ N = 1 => obs.selected = allWords(wordList)

\* a pool of a single word: the call found the word used, cleared usedWords,
\* retried once and returned the word again
C28_Witness ==
  /\ obs.op = "getRandomWord"
  /\ N = 1
  /\ obs.retries = <<1>>
  /\ obs.selected = allWords(wordList)
  /\ usedWords = Pool

\* C29 as stated: brushSize is strictly greater than 0 in every reachable
\* state, after any sequence of setBrushSize calls and slider events.
C29_BrushSizePositive == brushSize > 0

\* C29: brushSize is 3 initially, changes only in setBrushSize(value) and is
\* then exactly the value given; so it stays positive as long as every value
\* given is positive, as every slider value is, and it stops being positive
\* only in a direct call that gives a value that is not positive.
C29_BrushSizeIsLastGiven ==
  /\ [](obs.op = "constructor" => brushSize = 3)
  /\ [][ IF obs'.op = "setBrushSize"
         THEN brushSize' = obs'.args[1]
         ELSE brushSize' = brushSize ]_vars
  /\ [][ (brushSize > 0 /\ brushSize' <= 0) =>
           /\ obs'.op = "setBrushSize"
           /\ obs'.args[1] <= 0
           /\ obs'.args[1] \notin BrushSizes ]_vars
  /\ [](\A size \in BrushSizes : size > 0)

\* in the middle of a gesture drawn with a slider size, a direct call has
\* stored another positive size
C29_Witness ==
  /\ obs.op = "setBrushSize"
  /\ obs.args = <<brushSize>>
  /\ brushSize > 0
  /\ brushSize \notin BrushSizes
  /\ lineWidth \in BrushSizes
  /\ isDrawing

\* C30: touchstart, touchmove and touchend change the canvas exactly as
\* startDrawing, draw and stopDrawing do (the operations of mousedown,
\* mousemove and mouseup) for the first touch point of the event, whatever
\* other touch points there are, and touchstart and touchmove suppress the
\* default touch behaviour; mouse events suppress nothing.
C30_TouchAsMouse ==
  [][ /\ obs'.op = "touchstart" =>
           /\ startDrawing(obs'.args[1])
           /\ obs'.prevented
      /\ obs'.op = "touchmove" =>
           /\ draw(obs'.args[1])
           /\ obs'.prevented
      /\ obs'.op = "touchend" => stopDrawing
      /\ obs'.op \in { "mousedown", "mousemove", "mouseup" } => ~obs'.prevented
    ]_vars

\* a move of two fingers has drawn in an open gesture: the line went to the
\* first finger and did not reach the second
C30_Witness ==
  /\ obs.op = "touchmove"
  /\ obs.prevented
  /\ Len(obs.args) = 2
  /\ obs.args[1] # obs.args[2]
  /\ isDrawing
  /\ path.point = <<getPosition(obs.args[1], DisplayRect)>>
  /\ getPosition(obs.args[2], DisplayRect) \notin path.ink
  /\ path.ink # {}

-----------------------------------------------------------------------------
(* The game's flow: start, rounds, notifications, result and displays *)

\* C31 as stated: the start-game action reveals the play surface and calls
\* nextWord() once, so that after it currentWord is set; before it,
\* currentWord is absent and submit/skip report NoActiveRound.
C31_NoWordBeforeStart ==
  /\ [](~startGameSectionHidden => currentWord = Null)
  /\ [][ obs'.op = "startGame" =>
           /\ startGameSectionHidden'
           /\ Len(obs'.selected) = 1
           /\ currentWord' = obs'.selected[1] ]_vars
  /\ [][ (~startGameSectionHidden /\ obs'.op \in { "submitAnswer", "skipWord" })
           => obs'.alerts = <<NoActiveRound>> ]_vars

\* C31: the start-game action hides the start section, shows the canvas
\* wrapper and the toolbar and calls nextWord() exactly once: one word is
\* selected, it is the current word and is displayed, usedWords gains it, the
\* result is hidden. From then on a round is active. currentWord is absent
\* until the first nextWord(), made by the start action or by the next button,
\* and as long as it is absent submit and skip report NoActiveRound and
\* change nothing.
C31_StartGame ==
  /\ [](obs.op = "constructor" =>
          /\ currentWord = Null
          /\ ~startGameSectionHidden
          /\ canvasWrapperDisplay = "" /\ toolbarDisplay = "")
  /\ [](startGameSectionHidden =>
          /\ currentWord # Null
          /\ canvasWrapperDisplay = "block" /\ toolbarDisplay = "block")
  /\ [][ obs'.op = "startGame" =>
           /\ startGameSectionHidden'
           /\ canvasWrapperDisplay' = "block"
           /\ toolbarDisplay' = "block"
           /\ Len(obs'.selected) = 1
           /\ currentWord' = obs'.selected[1]
           /\ currentWord' \in Pool
           /\ wordDisplay' = updateWordDisplay(currentWord')
           /\ resultHidden'
           /\ usedWords' = (IF usedWords = Pool THEN {} ELSE usedWords)
                              \cup { currentWord' }
           /\ UNCHANGED <<score, scoreDisplay>> ]_vars
  /\ [][ (currentWord = Null /\ currentWord' # Null)
           => obs'.op \in { "startGame", "nextWord" } ]_vars
  /\ [][ (currentWord = Null /\ obs'.op \in { "submitAnswer", "skipWord" }) =>
           /\ obs'.alerts = <<NoActiveRound>>
           /\ UNCHANGED <<gameVars, domVars, canvasVars, pageVars>> ]_vars

\* the start button was clicked before any other nextWord(): the play surface
\* is revealed and the first round is active
C31_Witness ==
  /\ obs.op = "startGame"
  /\ startGameSectionHidden
  /\ canvasWrapperDisplay = "block" /\ toolbarDisplay = "block"
  /\ usedWords = { currentWord }
  /\ wordDisplay = updateWordDisplay(currentWord)
  /\ resultHidden
  /\ score = 0

C33_OneNotification ==
  [][ /\ obs'.op = "submitAnswer" =>
           /\ currentWord = Null => obs'.alerts = <<NoActiveRound>>
           /\ (currentWord # Null /\ isEmpty(pixels))
                => obs'.alerts = <<EmptyCanvas>>
           /\ (currentWord # Null /\ ~isEmpty(pixels)) =>
                /\ obs'.alerts = <<>>
                /\ ~resultHidden'
           /\ obs'.alerts # <<>> => UNCHANGED <<gameVars, domVars, canvasVars>>
      /\ obs'.op = "skipWord" =>
           /\ currentWord = Null => obs'.alerts = <<NoActiveRound>>
           /\ currentWord # Null =>
                /\ obs'.alerts = <<>>
                /\ ~resultHidden'
           /\ obs'.alerts # <<>> => UNCHANGED <<gameVars, domVars, canvasVars>>
    ]_vars

\* submitAnswer() was called with no current word on an empty surface and
\* reported NoActiveRound alone
C33_Witness ==
  /\ obs.op = "submitAnswer"
  /\ obs.alerts = <<NoActiveRound>>
  /\ currentWord = Null
  /\ isEmpty(pixels)

\* C34: in every state reached through nextWord(), submitAnswer() and
\* skipWord(), usedWords is a subset of the pool; currentWord is null exactly
\* until the first nextWord() and never becomes null again; and whenever
\* currentWord is non-null it is a member of usedWords and
\* 1 <= |usedWords| <= N.
C34_WordTracking ==
  /\ [](/\ usedWords \subseteq Pool
        /\ currentWord = Null <=> usedWords = {}
        /\ currentWord # Null =>
             /\ currentWord \in usedWords
             /\ currentWord \in Pool
             /\ 1 <= Cardinality(usedWords)
             /\ Cardinality(usedWords) <= N)
  /\ [][ /\ currentWord # Null => currentWord' # Null
         /\ (currentWord = Null /\ obs'.op # "nextWord") => currentWord' = Null
         /\ obs'.op = "nextWord" => currentWord' # Null
         /\ obs'.op # "nextWord" => UNCHANGED <<currentWord, usedWords>> ]_vars

\* every word of the pool has been used and a word of a later cycle is the
\* current one, after a scored round
C34_Witness ==
  /\ obs.op = "nextWord"
  /\ currentWord # Null
  /\ usedWords = { currentWord }
  /\ score > 0
  /\ N > 1
  /\ resultMessage.word \notin { Null, currentWord }

\* C35: the result is hidden after every nextWord(), visible after every
\* successful submitAnswer() or skipWord(), and left exactly as it was by a
\* failing submitAnswer() or skipWord() and by every other operation; it is
\* hidden on the page as loaded and becomes visible only in a successful
\* submit or skip.
C35_ResultVisibility ==
  /\ [](obs.op = "constructor" => resultHidden)
  /\ [][ /\ obs'.op = "nextWord" => resultHidden'
         /\ (obs'.op \in { "submitAnswer", "skipWord" } /\ obs'.alerts = <<>>)
              => ~resultHidden'
         /\ (obs'.op \in { "submitAnswer", "skipWord" } /\ obs'.alerts # <<>>)
              => UNCHANGED <<resultHidden, resultTitle, resultMessage>>
         /\ obs'.op \notin { "nextWord", "submitAnswer", "skipWord" }
              => UNCHANGED <<resultHidden, resultTitle, resultMessage>>
         /\ (resultHidden /\ ~resultHidden') =>
              /\ obs'.op \in { "submitAnswer", "skipWord" }
              /\ obs'.alerts = <<>> ]_vars

\* a submitAnswer() that failed on an empty surface has left the result of
\* the round's skip visible
C35_Witness ==
  /\ obs.op = "submitAnswer"
  /\ obs.alerts = <<EmptyCanvas>>
  /\ ~resultHidden
  /\ resultMessage.message = SkipResult(currentWord).message

\* C36: whenever the result is visible, the word it displays is currentWord
\* and the word display shows currentWord too; currentWord changes only in
\* nextWord(), which refreshes the word display and hides the result in the
\* same step.
C36_ResultNeverStale ==
  /\ [](~resultHidden =>
          /\ currentWord # Null
          /\ resultMessage.word = currentWord
          /\ wordDisplay = updateWordDisplay(currentWord)
          /\ wordDisplay.textContent = currentWord)
  /\ [][ currentWord' # currentWord =>
           /\ obs'.op = "nextWord"
           /\ wordDisplay' = updateWordDisplay(currentWord')
           /\ resultHidden' ]_vars

\* in a round after the first, a successful submit or skip has shown the
\* result with that round's word
C36_Witness ==
  /\ ~resultHidden
  /\ obs.op \in { "submitAnswer", "skipWord" }
  /\ obs.alerts = <<>>
  /\ resultMessage.word = currentWord
  /\ Cardinality(usedWords) >= 2

\* C37: the score display shows score in every reachable state: its text is
\* the decimal representation of score, 0 initially. score and the display
\* change only in a successful submitAnswer(), which adds the points of its
\* evaluation and refreshes the display in the same step.
C37_ScoreDisplayed ==
  /\ [](/\ scoreDisplay = ToString(score)
        /\ ParseInt(scoreDisplay) = score)
  /\ [](obs.op = "constructor" => scoreDisplay = <<0>>)
  /\ [][ (score' # score \/ scoreDisplay' # scoreDisplay) =>
           /\ obs'.op = "submitAnswer"
           /\ obs'.alerts = <<>>
           /\ Len(obs'.evaluations) = 1
           /\ score' = score + obs'.evaluations[1].points
           /\ scoreDisplay' = ToString(score') ]_vars

\* a submitAnswer() has brought the score to two digits
C37_Witness ==
  /\ obs.op = "submitAnswer"
  /\ obs.alerts = <<>>
  /\ score >= 10
  /\ Len(scoreDisplay) = 2
  /\ scoreDisplay = <<score \div 10, score % 10>>

\* C38: a press (mousedown or touchstart) received while the surface is already
\* drawing keeps it drawing, discards the current path and moves the path
\* cursor to the new point without rendering: the new path holds no line, no
\* pixel changes, and the settings are left alone.
C38_PressWhileDrawing ==
  [][ (isDrawing /\ obs'.op \in { "mousedown", "touchstart" }) =>
        /\ isDrawing'
        /\ path'.ink = {}
        /\ path'.point = <<getPosition(obs'.args[1], DisplayRect)>>
        /\ UNCHANGED <<pixels, sinceClear, currentColor, brushSize,
                       strokeStyle, lineWidth, fillStyle>> ]_vars

\* a press away from the painted line of the open gesture: the cursor is at
\* the new point and the path is empty
C38_Witness ==
  /\ obs.op \in { "mousedown", "touchstart" }
  /\ isDrawing
  /\ path.ink = {}
  /\ \E p \in Pixels : pixels[p] = ParseColor("#ff0000")
  /\ pixels[path.point[1]] = ParseColor(ClearColor)

\* C39 as stated: the scaled and the offset-only transform return the same
\* (x, y) when the rectangle's width and height equal canvas.width and
\* canvas.height, and for any other display size they differ for every event
\* not located at the rectangle's top-left corner.
C39_AgreeOnlyAtPixelSize ==
  obs.op = "getPositions" =>
    LET e == obs.args[1]
        rect == obs.args[2]
        atPixelSize == rect.width = CanvasWidth /\ rect.height = CanvasHeight
        atCorner == e.clientX = rect.left /\ e.clientY = rect.top
    IN /\ atPixelSize => obs.position[1] = obs.position[2]
       /\ (~atPixelSize /\ ~atCorner) => obs.position[1] # obs.position[2]

\* C39: the scaled and the offset-only transform return the same (x, y) when
\* the rectangle's width and height equal canvas.width and canvas.height.
\* Otherwise they agree coordinate by coordinate: x is the same exactly when
\* the width is the canvas's or the event is on the rectangle's left edge, y
\* exactly when the height is the canvas's or the event is on the top edge; so
\* they differ for every event off a scaled axis's edge, and agree at the
\* top-left corner.
C39_AgreePerAxis ==
  obs.op = "getPositions" =>
    LET e == obs.args[1]
        rect == obs.args[2]
        scaled == obs.position[1]
        offset == obs.position[2]
    IN /\ (rect.width = CanvasWidth /\ rect.height = CanvasHeight)
            => scaled = offset
       /\ scaled.x = offset.x
            <=> (rect.width = CanvasWidth \/ e.clientX = rect.left)
       /\ scaled.y = offset.y
            <=> (rect.height = CanvasHeight \/ e.clientY = rect.top)
       /\ offset.x = [num |-> e.clientX - rect.left, den |-> 1,
                      rounding |-> "exact"]
       /\ offset.y = [num |-> e.clientY - rect.top, den |-> 1,
                      rounding |-> "exact"]

\* a canvas displayed at its pixel size away from the viewport's origin, an
\* event off its top and left edges: both variants returned the same position
C39_Witness ==
  /\ obs.op = "getPositions"
  /\ LET e == obs.args[1]
         rect == obs.args[2]
     IN /\ rect.width = CanvasWidth /\ rect.height = CanvasHeight
        /\ rect.left > 0 /\ rect.top > 0
        /\ e.clientX > rect.left /\ e.clientY > rect.top
  /\ obs.position[1] = obs.position[2]

====
